---- MODULE Spec2Model ----
(***************************************************************************)
(* A model of the two command-line assistants of this repository           *)
(* (packages codechat and claudecode): the code extractor, the edit loop,  *)
(* the safe runner, the REPL session, the backend adapters and the         *)
(* streaming reader of the OpenAI-compatible backend.                      *)
(*                                                                         *)
(* Texts are sequences of characters, each a string.  Python's None is the *)
(* one-element sequence None, which is no text since "None" is not a       *)
(* character of the alphabet; the absent path is the string NoFile.        *)
(***************************************************************************)
EXTENDS Integers, Sequences, FiniteSets, TLC

VARIABLES
    ex,     \* extract_code applied to a text: pc, text (the argument), out (the value returned)
    el,     \* edit_loop: pc, auto_accept, file (the target file's content on disk),
            \* orig (its content before the call), result (what backend.chat
            \* returned), code, prompts (confirmation prompts issued),
            \* opened_w (the file was opened for writing)
    sr,     \* safe_run_file: impl (the package), path, pc, child (the child
            \* process), exit (what the child exits with), elapsed (seconds
            \* waited in communicate), result (the value returned), timed_out
            \* (TimeoutExpired was raised), error (another exception raised
            \* in the try block)
    rp,     \* ReplSession: current_file, current_code, last_model_output, fs
            \* (the files on disk), pc (waiting for input, or inside a command's
            \* backend or runner call), cmd (the last line read), and what the
            \* last command did: warn (the message it printed), requested (a
            \* backend request), spawned (a child process), wrote (a file);
            \* end (why run() ended), escaped (an exception left run());
            \* prompt_file (the file whose content the prompt of improve
            \* embeds), output_file (the file whose content the prompt that
            \* last_model_output answers embedded), code (what run_code wrote
            \* to the temporary file it executes)
    be,     \* a backend handle and one non-streaming chat: pkg, cls, api_key,
            \* pc, sent_key (the credential of the request issued), status and
            \* body (of the HTTP response), ret (the text returned), err and
            \* err_status (the error raised and the HTTP status it carries)
    st      \* OpenAIBackend.chat with stream=True: pkg, pc, lines (the response
            \* lines that have arrived), calls (the on_stream invocations)

vars == <<ex, el, sr, rp, be, st>>

\* A part of the program that a specification leaves out.
Off == [pc |-> "off"]

(***************************************************************************)
(* Bounds of the model.                                                    *)
(***************************************************************************)
MaxTextLen == 8        \* characters of a text given to extract_code
MaxOutPieces == 4      \* pieces of a model output given to edit_loop
MaxLines == 3          \* lines of a streamed response

(***************************************************************************)
(* Texts.                                                                  *)
(***************************************************************************)
None == <<"None">>
NoFile == "<none>"

WordChars == {"a", "b", "p"}                \* characters matched by \w
SpaceChars == {" ", "\n"}               \* characters removed by str.strip()

\* The backtick character (written BQ: a back-quote cannot appear in a module).
BQ == "BQ"

Fence == <<BQ, BQ, BQ>>

\* Python truthiness of an optional text: None and "" are false.
Truthy(x) == x # None /\ x # <<>>

\* str.strip(): drop leading and trailing whitespace.
strip(s) ==
    LET keep == {i \in 1..Len(s) : s[i] \notin SpaceChars}
    IN  IF keep = {} THEN <<>>
        ELSE LET lo == CHOOSE i \in keep : \A k \in keep : i <= k
                 hi == CHOOSE i \in keep : \A k \in keep : k <= i
             IN  SubSeq(s, lo, hi)

\* The three characters at i are the triple-backtick marker.
FenceAt(t, i) ==
    /\ i >= 1
    /\ i + 2 <= Len(t)
    /\ t[i] = BQ /\ t[i + 1] = BQ /\ t[i + 2] = BQ

\* Length of the maximal run of \w characters of t starting at j (greedy \w+).
WordRun(t, j) ==
    LET stops == {k \in 0..(Len(t) + 1) : j + k > Len(t) \/ t[j + k] \notin WordChars}
    IN  CHOOSE k \in stops : \A m \in stops : k <= m

\* First position >= g at which the marker occurs, 0 if none (lazy .*? then the marker).
NextFence(t, g) ==
    LET at == {e \in g..Len(t) : FenceAt(t, e)}
    IN  IF at = {} THEN 0 ELSE CHOOSE e \in at : \A m \in at : e <= m

\* Where group 1 starts when the pattern <marker>(?:\w+)?\n matches at i, else 0.
\* After the marker the optional \w+ is greedy; it is followed by \n only
\* when it takes the whole run of word characters (a shorter choice is
\* followed by a word character, the empty choice needs the run to be empty).
GroupStart(t, i) ==
    IF ~FenceAt(t, i) THEN 0
    ELSE LET j == i + 3
             r == WordRun(t, j)
         IN  IF j + r <= Len(t) /\ t[j + r] = "\n" THEN j + r + 1 ELSE 0

\* re.search: the pattern matches at i.
MatchAt(t, i) == GroupStart(t, i) # 0 /\ NextFence(t, GroupStart(t, i)) # 0

\* extract_code(text): group 1 of the leftmost match, stripped; None if no match.
extract_code(text) ==
    LET hits == {i \in 1..Len(text) : MatchAt(text, i)}
    IN  IF hits = {} THEN None
        ELSE LET i == CHOOSE h \in hits : \A m \in hits : h <= m
                 g == GroupStart(text, i)
                 e == NextFence(text, g)
             IN  strip(SubSeq(text, g, e - 1))

\* The template the prompts use to put a text in a fence.
wrap_in_fence(x) == Fence \o <<"p", "\n">> \o x \o <<"\n">> \o Fence

(***************************************************************************)
(* The extractor applied to bounded texts (edit_loop.py, extract_code).    *)
(***************************************************************************)
\* The pieces texts are built of: the marker, an opening line with a hint
\* that is no word (as in c++), and single characters.
Pieces == {Fence, Fence \o <<"+", "\n">>, <<"a">>, <<"+">>, <<"\n">>, <<" ">>}

ExInit == ex = [pc |-> "build", text |-> <<>>, out |-> None]

ExAppend ==
    /\ ex.pc = "build"
    /\ \E p \in Pieces :
          /\ Len(ex.text) + Len(p) <= MaxTextLen
          /\ ~(p = Fence /\ ex.text # <<>> /\ ex.text[Len(ex.text)] = BQ)
          /\ ex' = [ex EXCEPT !.text = ex.text \o p]

ExExtract ==
    /\ ex.pc = "build"
    /\ ex' = [ex EXCEPT !.pc = "done", !.out = extract_code(ex.text)]

(***************************************************************************)
(* The edit loop (edit_loop.py, edit_loop).                                *)
(***************************************************************************)
\* Concatenation of a sequence of pieces.
RECURSIVE Flatten(_)
Flatten(ps) == IF ps = <<>> THEN <<>> ELSE Head(ps) \o Flatten(Tail(ps))

\* The texts a backend may return: every text of at most MaxOutPieces pieces.
\* (Markers are three backticks: no text with a longer run of backticks.)
ModelOutputs ==
    {t \in {Flatten(ps) : ps \in UNION {[1..k -> Pieces] : k \in 0..MaxOutPieces}} :
        \A i \in 1..Len(t) : ~(FenceAt(t, i) /\ i + 3 <= Len(t) /\ t[i + 3] = BQ)}

FileContents == {<<>>, <<"a">>, <<"b", "\n">>}

ElInit ==
    \E auto \in BOOLEAN, content \in FileContents :
        el = [pc |-> "start", auto_accept |-> auto, file |-> content, orig |-> content,
              result |-> None, code |-> None, prompts |-> 0, opened_w |-> FALSE]

\* Lines 32-34: open the file for writing and write the code.
ElApply(s, code) == [s EXCEPT !.opened_w = TRUE, !.file = code, !.pc = "done"]

\* Lines 6-16: read the file, build the prompt, call backend.chat.
ElStart ==
    /\ el.pc = "start"
    /\ el' = [el EXCEPT !.pc = "awaiting_model"]

\* Lines 16-34, backend.chat returns result: extract; no code aborts; with
\* auto_accept the code is applied at once, else the user is asked.
ElModelReturns(result) ==
    /\ el.pc = "awaiting_model"
    /\ LET code == extract_code(result)
           s == [el EXCEPT !.result = result, !.code = code]
       IN  el' = IF ~Truthy(code) THEN [s EXCEPT !.pc = "aborted"]
                 ELSE IF el.auto_accept THEN ElApply(s, code)
                 ELSE [s EXCEPT !.pc = "awaiting_confirmation", !.prompts = el.prompts + 1]

\* Line 16, backend.chat raises: the error propagates to the caller.
ElModelRaises ==
    /\ el.pc = "awaiting_model"
    /\ el' = [el EXCEPT !.pc = "raised"]

\* ElConfirm with the write placed before the test of the answer.
ElConfirmWritesFirst(accept) ==
    /\ el.pc = "awaiting_confirmation"
    /\ el' = IF accept THEN ElApply(el, el.code)
             ELSE [ElApply(el, el.code) EXCEPT !.pc = "discarded"]

\* Lines 27-34, click.confirm returns accept.
ElConfirm(accept) ==
    /\ el.pc = "awaiting_confirmation"
    /\ el' = IF accept THEN ElApply(el, el.code) ELSE [el EXCEPT !.pc = "discarded"]

\* Line 27, click.confirm aborts (end of input or interrupt at the prompt).
ElConfirmAborts ==
    /\ el.pc = "awaiting_confirmation"
    /\ el' = [el EXCEPT !.pc = "raised"]

(***************************************************************************)
(* The safe runner (executor.py of both packages, safe_run_file).          *)
(***************************************************************************)
Packages == {"codechat", "claudecode"}

\* The timeout parameter's default, which every caller in the repository uses.
DefaultTimeoutCodechat == 6
DefaultTimeoutClaudecode == 8

timeout(impl) ==
    IF impl = "codechat" THEN DefaultTimeoutCodechat ELSE DefaultTimeoutClaudecode

\* A path is its stem followed by its extensions; file.endswith(".py").
RunPaths == {<<"a", ".py">>, <<"a", ".txt">>, <<"a", ".py", ".bak">>}
endswith_py(path) == Len(path) > 0 /\ path[Len(path)] = ".py"

Result(rc, out, err) == [rc |-> rc, out |-> out, err |-> err]
NoResult == Result(-1, "", "")

\* What a child that ends by itself leaves: exit code, stdout, stderr.
ChildExits == {Result(rc, out, err) : rc \in {0, 1}, out \in {"", "hi"}, err \in {"", "boom"}}

\* The value returned for a path that is no .py file.
BadExtension(impl) ==
    IF impl = "codechat"
    THEN Result(1, "", "Only .py files supported")
    ELSE Result(1, "", "Can only run .py files in this helper.")

\* Which packages have the handler "except Exception as e: return (1, '', str(e))".
CatchesException(impl) == impl = "claudecode"

SrInit ==
    \E impl \in Packages, path \in RunPaths :
        sr = [impl |-> impl, path |-> path, pc |-> "called", child |-> "none",
              exit |-> NoResult, elapsed |-> 0, result |-> NoResult,
              timed_out |-> FALSE, error |-> "none"]

\* The extension check: a path that is no .py file returns at once.
SrRejectPath ==
    /\ sr.pc = "called"
    /\ ~endswith_py(sr.path)
    /\ sr' = [sr EXCEPT !.result = BadExtension(sr.impl), !.pc = "returned"]

\* subprocess.Popen starts the child; communicate(timeout) begins to wait.
SrSpawn ==
    /\ sr.pc = "called"
    /\ endswith_py(sr.path)
    /\ sr' = [sr EXCEPT !.child = "running", !.pc = "communicate"]

\* An exception other than TimeoutExpired inside the try block: returned as
\* (1, "", str(e)) where there is a handler for it, else it leaves the function.
SrOnError(s, e) ==
    IF CatchesException(s.impl)
    THEN [s EXCEPT !.error = e, !.result = Result(1, "", e), !.pc = "returned"]
    ELSE [s EXCEPT !.error = e, !.pc = "raised"]

\* subprocess.Popen raises (the interpreter cannot be started).
SrSpawnFails ==
    /\ sr.pc = "called"
    /\ endswith_py(sr.path)
    /\ sr' = SrOnError(sr, "OSError")

\* Whether safe_run_file can leave by an exception other than an interrupt.
safe_run_file_raises(impl) == ~CatchesException(impl)

\* communicate raises something other than TimeoutExpired (with text=True,
\* output that cannot be decoded raises UnicodeDecodeError).
SrCommunicateFails ==
    /\ sr.pc = "communicate"
    /\ sr' = SrOnError(sr, "UnicodeDecodeError")

\* A second passes while communicate waits.
SrTick ==
    /\ sr.pc = "communicate"
    /\ sr.elapsed < timeout(sr.impl)
    /\ sr' = [sr EXCEPT !.elapsed = sr.elapsed + 1]

\* The child ends by itself (at any time while it runs).
SrChildExits ==
    /\ sr.child = "running"
    /\ \E x \in ChildExits : sr' = [sr EXCEPT !.child = "exited", !.exit = x]

\* communicate returns once the child has exited: return (returncode, out, err).
SrCommunicateReturns ==
    /\ sr.pc = "communicate"
    /\ sr.child = "exited"
    /\ sr' = [sr EXCEPT !.result = sr.exit, !.pc = "returned"]

\* The timeout elapses with the child still running: TimeoutExpired.
SrTimeoutExpired ==
    /\ sr.pc = "communicate"
    /\ sr.child = "running"
    /\ sr.elapsed = timeout(sr.impl)
    /\ sr' = [sr EXCEPT !.timed_out = TRUE, !.pc = "except_timeout"]

\* proc.kill(): SIGKILL is sent to a child that still runs (Popen.kill does
\* nothing for a child that has exited); kill does not wait for the child.
SrKill ==
    /\ sr.pc = "except_timeout"
    /\ sr' = [sr EXCEPT !.child = IF sr.child = "running" THEN "kill_sent" ELSE sr.child,
                        !.pc = "killed"]

\* The operating system ends the child some time after the signal was sent.
SrChildDies ==
    /\ sr.child = "kill_sent"
    /\ sr' = [sr EXCEPT !.child = "dead"]

\* return 124, "", "Timeout": the statement after proc.kill().
SrReturnTimeout ==
    /\ sr.pc = "killed"
    /\ sr' = [sr EXCEPT !.result = Result(124, "", "Timeout"), !.pc = "returned"]

(***************************************************************************)
(* The REPL session (repl.py, ReplSession).                                *)
(***************************************************************************)
\* A line is the words input().strip() yields, separated by single spaces.
ReplLines ==
    { <<>>, <<"exit">>, <<"quit">>, <<"help">>,
      <<"load", "a.py">>, <<"load", "b.py">>, <<"load", "missing.py">>,
      <<"improve", "x">>, <<"improve">>, <<"run">>, <<"save">>, <<"save", "x">>,
      <<"ask", "q">>, <<"frobnicate">> }

ReplPaths == {"a.py", "b.py"}

\* What the backend may answer to improve: prose, a block of code, an empty block.
ReplOutputs ==
    { <<"a", " ", "a">>,
      Fence \o <<"p", "\n", "a", "\n">> \o Fence,
      Fence \o <<"p", "\n", "\n">> \o Fence }

\* The branch of run() that a line takes (lines 23-42).
CommandOf(cmd) ==
    IF cmd = <<>> THEN "empty"
    ELSE IF cmd \in {<<"exit">>, <<"quit">>} THEN "exit"
    ELSE IF cmd = <<"help">> THEN "help"
    ELSE IF Len(cmd) >= 2 /\ cmd[1] = "load" THEN "load"
    ELSE IF Len(cmd) >= 2 /\ cmd[1] = "improve" THEN "improve"
    ELSE IF cmd = <<"run">> THEN "run"
    ELSE IF cmd = <<"save">> THEN "save"
    ELSE IF Len(cmd) >= 2 /\ cmd[1] = "ask" THEN "ask"
    ELSE "unknown"

RpInit ==
    \E ca \in {<<>>, <<"b">>} :
        rp = [pc |-> "input", current_file |-> NoFile, current_code |-> None,
              last_model_output |-> None,
              fs |-> [f \in ReplPaths |-> IF f = "a.py" THEN ca ELSE <<"b", "b">>],
              cmd |-> <<>>, warn |-> "none", requested |-> FALSE, spawned |-> FALSE,
              wrote |-> FALSE, end |-> "none", escaped |-> FALSE,
              prompt_file |-> NoFile, output_file |-> NoFile, code |-> None]

\* The session as a command begins: the line read, nothing done yet.
RpBegin(s, line) ==
    [s EXCEPT !.cmd = line, !.warn = "none", !.requested = FALSE, !.spawned = FALSE,
              !.wrote = FALSE, !.prompt_file = NoFile, !.code = None]

\* load_file(path), lines 56-63.
load_file(s, path) ==
    IF path \in DOMAIN s.fs
    THEN [s EXCEPT !.current_code = s.fs[path], !.current_file = path]
    ELSE [s EXCEPT !.warn = "load_failed"]

\* improve(instruction) up to the call of backend.chat, lines 65-74.
improve_guard(s) == ~Truthy(s.current_code)

improve(s) ==
    IF improve_guard(s)
    THEN [s EXCEPT !.warn = "no_file"]
    ELSE [s EXCEPT !.prompt_file = s.current_file, !.requested = TRUE, !.pc = "improve"]

\* run_code() up to the call of safe_run_file, lines 82-91: the code is
\* written to a temporary file, which the runner executes.
run_code(s) ==
    IF ~(Truthy(s.last_model_output) \/ Truthy(s.current_code))
    THEN [s EXCEPT !.warn = "no_code"]
    ELSE [s EXCEPT !.code = IF Truthy(s.last_model_output) THEN s.last_model_output
                                                                ELSE s.current_code,
                   !.wrote = TRUE, !.spawned = TRUE, !.pc = "run"]

\* save_file(), lines 98-104 (the write succeeds).
save_guard(s) == s.current_file = NoFile \/ ~Truthy(s.last_model_output)

save_file(s) ==
    IF save_guard(s)
    THEN [s EXCEPT !.warn = "nothing_to_save"]
    ELSE [s EXCEPT !.fs[s.current_file] = s.last_model_output, !.wrote = TRUE]

\* ask(question) up to the call of backend.chat, line 107.
ask(s) == [s EXCEPT !.requested = TRUE, !.pc = "ask"]

\* One pass of the loop of run() for a line read, lines 18-42.
Dispatch(s, line) ==
    LET b == RpBegin(s, line)
        k == CommandOf(line)
    IN  IF k = "empty" THEN b
        ELSE IF k = "exit" THEN [b EXCEPT !.pc = "ended", !.end = line[1]]
        ELSE IF k = "help" THEN [b EXCEPT !.warn = "help"]
        ELSE IF k = "load" THEN load_file(b, line[2])
        ELSE IF k = "improve" THEN improve(b)
        ELSE IF k = "run" THEN run_code(b)
        ELSE IF k = "save" THEN save_file(b)
        ELSE IF k = "ask" THEN ask(b)
        ELSE [b EXCEPT !.warn = "unknown"]

\* input() returns a line.
RpRead(line) ==
    /\ rp.pc = "input"
    /\ rp' = Dispatch(rp, line)

\* input() raises EOFError: caught at lines 19-21, the loop ends.
RpEndOfInput ==
    /\ rp.pc = "input"
    /\ rp' = [rp EXCEPT !.pc = "ended", !.end = "eof"]

\* An exception raised inside a command handler: no handler in run() encloses
\* the command calls (the try of lines 17-21 encloses input() alone).
RpEscape(s, why) == [s EXCEPT !.pc = "ended", !.end = why, !.escaped = TRUE]

\* RpInterruptAtInput with a handler that names EOFError alone.
RpInterruptAtInputUncaught ==
    /\ rp.pc = "input"
    /\ rp' = RpEscape(rp, "interrupt_at_input")

\* input() raises KeyboardInterrupt: caught at lines 19-21, the loop ends.
RpInterruptAtInput ==
    /\ rp.pc = "input"
    /\ rp' = [rp EXCEPT !.pc = "ended", !.end = "interrupt_at_input"]

\* KeyboardInterrupt while a command waits for the backend or the child.
RpInterruptInCommand ==
    /\ rp.pc \in {"improve", "run", "ask"}
    /\ rp' = RpEscape(rp, "interrupt_in_command")

\* improve: backend.chat returns result, lines 74-80.
RpImproveReturns(result) ==
    /\ rp.pc = "improve"
    /\ LET code == extract_code(result)
       IN  rp' = IF Truthy(code)
                 THEN [rp EXCEPT !.last_model_output = code,
                                 !.output_file = rp.prompt_file, !.pc = "input"]
                 ELSE [rp EXCEPT !.warn = "no_code_returned", !.pc = "input"]

\* improve or ask: backend.chat raises (a transport error).
RpBackendRaises ==
    /\ rp.pc \in {"improve", "ask"}
    /\ rp' = RpEscape(rp, "error")

\* ask: backend.chat returns, lines 107-108.
RpAskReturns ==
    /\ rp.pc = "ask"
    /\ rp' = [rp EXCEPT !.pc = "input"]

\* run: safe_run_file returns; the result is printed, the temporary file removed.
RpRunReturns ==
    /\ rp.pc = "run"
    /\ rp' = [rp EXCEPT !.pc = "input"]

\* run: safe_run_file raises (codechat's has no handler for spawn failures).
RpRunRaises ==
    /\ rp.pc = "run"
    /\ safe_run_file_raises("codechat")
    /\ rp' = RpEscape(rp, "error")

\* save: opening current_file for writing fails, line 102.
RpSaveFails ==
    /\ rp.pc = "input"
    /\ ~save_guard(rp)
    /\ rp' = RpEscape(RpBegin(rp, <<"save">>), "error")

(***************************************************************************)
(* The backend adapters: construction and one non-streaming chat.          *)
(***************************************************************************)
\* os.getenv of a variable that is not set returns None.
Unset == "<unset>"
ApiKeys == {Unset, "", "sk"}
FalsyKey(k) == k \in {Unset, ""}

BackendNames == {"mock", "openai", "ollama", "openwebui", "OpenAI"}
lower(name) == IF name = "OpenAI" THEN "openai" ELSE name

HttpClasses == {"OpenAIBackend", "OllamaBackend", "OpenWebUIBackend"}

\* The class get_backend picks: codechat/config.py 7-23, claudecode/backend.py
\* 8-16 (which lowers the environment's value but not the model argument).
BackendClass(pkg, source, name) ==
    LET backend == IF pkg = "codechat" \/ source = "env" THEN lower(name) ELSE name
    IN  IF backend = "openai" THEN "OpenAIBackend"
        ELSE IF backend = "ollama" THEN "OllamaBackend"
        ELSE IF backend = "openwebui" /\ pkg = "codechat" THEN "OpenWebUIBackend"
        ELSE "MockBackend"

\* OpenAIBackend.__init__ rejects a missing key (claudecode/backend.py 34-35;
\* codechat/backends/openai.py 4-7 has no check).
InitRejectsKey(pkg, key) == pkg = "claudecode" /\ FalsyKey(key)

Handle(pkg, cls, key) ==
    [pkg |-> pkg, cls |-> cls, api_key |-> key,
     pc |-> IF cls = "OpenAIBackend" /\ InitRejectsKey(pkg, key)
            THEN "config_error" ELSE "ready",
     sent_key |-> Unset, status |-> 0, body |-> "none", ret |-> "none",
     err |-> "none", err_status |-> 0]

BeInit ==
    be = [pkg |-> "none", cls |-> "none", api_key |-> Unset, pc |-> "config",
          sent_key |-> Unset, status |-> 0, body |-> "none", ret |-> "none",
          err |-> "none", err_status |-> 0]

\* get_backend(): the class is chosen by name, the key read from the environment.
BeGetBackend ==
    /\ be.pc = "config"
    /\ \E pkg \in Packages, source \in {"env", "override"}, name \in BackendNames,
          key \in ApiKeys :
          be' = Handle(pkg, BackendClass(pkg, source, name),
                       IF BackendClass(pkg, source, name) = "OpenAIBackend"
                       THEN key ELSE Unset)

\* OpenAIBackend(api_key=key) constructed directly.
BeConstructOpenAI ==
    /\ be.pc = "config"
    /\ \E pkg \in Packages, key \in ApiKeys : be' = Handle(pkg, "OpenAIBackend", key)

\* chat(prompt, stream=False) of an HTTP backend: requests.post is issued; the
\* OpenAI variant sends "Authorization: Bearer <api_key>".
BeChat ==
    /\ be.pc = "ready"
    /\ be.cls \in HttpClasses
    /\ be' = [be EXCEPT !.pc = "requesting",
                        !.sent_key = IF be.cls = "OpenAIBackend" THEN be.api_key ELSE Unset]

\* MockBackend.chat(prompt, stream=False): the canned response, no request.
BeMockChat ==
    /\ be.pc = "ready"
    /\ be.cls = "MockBackend"
    /\ be' = [be EXCEPT !.pc = "returned", !.ret = "canned"]

HttpStatuses == {200, 201, 401, 500}
\* A response body: a completion object, a JSON object without "choices"
\* (an error object), or text that is no JSON.
HttpBodies == {"completion", "error_json", "text"}

Returned(b, text) == [b EXCEPT !.pc = "returned", !.ret = text]
Raised(b, e, status) == [b EXCEPT !.pc = "raised", !.err = e, !.err_status = status]

\* r.json()["choices"][0]["message"]["content"]
MessageContent(b) ==
    IF b.body = "completion" THEN Returned(b, "content")
    ELSE IF b.body = "error_json" THEN Raised(b, "KeyError", 0)
    ELSE Raised(b, "JSONDecodeError", 0)

\* Whether chat calls r.raise_for_status() before it reads the response
\* (claudecode/backend.py 71, OpenAIBackend alone).
ChecksStatus(pkg, cls) == pkg = "claudecode" /\ cls = "OpenAIBackend"

\* The non-streaming branch of chat, given the response (in b.status, b.body).
ChatResult(b) ==
    IF ChecksStatus(b.pkg, b.cls) /\ b.status >= 400
    THEN Raised(b, "HTTPError", b.status)
    ELSE IF b.cls = "OpenAIBackend" THEN MessageContent(b)
    ELSE Returned(b, b.body)

\* The HTTP response arrives.
BeResponse ==
    /\ be.pc = "requesting"
    /\ \E status \in HttpStatuses, body \in HttpBodies :
          be' = ChatResult([be EXCEPT !.status = status, !.body = body])

\* requests.post raises (no connection): the error propagates.
BeTransportError ==
    /\ be.pc = "requesting"
    /\ be' = Raised(be, "ConnectionError", 0)

(***************************************************************************)
(* The streaming branch of OpenAIBackend.chat, with an on_stream callback. *)
(***************************************************************************)
\* A line is a sequence of characters and of payloads taken whole: the
\* sentinel, an event whose delta holds content x or y, an event whose delta
\* holds no content, and an event that is no JSON.  Beside data lines a
\* response may hold empty lines and lines of other fields ("event: a").
DataPrefix == <<"d", "a", "t", "a", ":", " ">>
Sentinel == "[DONE]"
Events == {"{x}", "{y}", "{}"}
Malformed == "{bad"

StreamLines ==
    { <<>>, <<"e", "v", "e", "n", "t", ":", " ", "a">>,
      DataPrefix \o <<Sentinel>>, DataPrefix \o <<Malformed>> }
    \cup {DataPrefix \o <<e>> : e \in Events}

startswith(line, prefix) ==
    Len(line) >= Len(prefix) /\ SubSeq(line, 1, Len(prefix)) = prefix

\* str.lstrip(chars): drop the leading characters that are in chars.
lstrip(line, chars) ==
    LET keep == {i \in 1..Len(line) : line[i] \notin chars}
    IN  IF keep = {} THEN <<>>
        ELSE SubSeq(line, CHOOSE i \in keep : \A k \in keep : i <= k, Len(line))

\* json.loads(text) succeeds and j["choices"][0]["delta"] exists.
Parses(text) == Len(strip(text)) = 1 /\ strip(text)[1] \in Events

\* j["choices"][0]["delta"].get("content", "")
DeltaContent(text) ==
    LET e == strip(text)[1]
    IN  IF e = "{x}" THEN "x" ELSE IF e = "{y}" THEN "y" ELSE ""

\* codechat/backends/openai.py 18-29: one pass of the loop over the lines.
StepCodechat(s, line) ==
    IF ~startswith(line, DataPrefix) THEN s
    ELSE LET data == SubSeq(line, 7, Len(line))
         IN  IF strip(data) = <<Sentinel>> THEN [s EXCEPT !.pc = "done"]
             ELSE IF Parses(data) THEN [s EXCEPT !.calls = Append(s.calls, DeltaContent(data))]
             ELSE s

\* claudecode/backend.py 52-65: one pass of the loop over the lines.
StepClaudecode(s, line) ==
    IF line = <<>> THEN s
    ELSE LET text == strip(lstrip(line, {"d", "a", "t", ":", " "}))
         IN  IF text = <<Sentinel>> THEN [s EXCEPT !.pc = "done"]
             ELSE LET delta == IF Parses(text) THEN DeltaContent(text) ELSE ""
                  IN  [s EXCEPT !.calls = Append(s.calls, delta)]

StInit ==
    \E pkg \in Packages : st = [pkg |-> pkg, pc |-> "reading", lines |-> <<>>, calls |-> <<>>]

\* A line of the response arrives; the loop, unless it has ended, handles it.
StLine ==
    /\ st.pc \in {"reading", "done"}
    /\ Len(st.lines) < MaxLines
    /\ \E line \in StreamLines :
          LET s == [st EXCEPT !.lines = Append(st.lines, line)]
          IN  st' = IF st.pc = "done" THEN s
                    ELSE IF st.pkg = "codechat" THEN StepCodechat(s, line)
                    ELSE StepClaudecode(s, line)

\* The response ends: iter_lines is exhausted.
StEnd ==
    /\ st.pc = "reading"
    /\ st' = [st EXCEPT !.pc = "exhausted"]

(***************************************************************************)
(* Specifications.                                                         *)
(***************************************************************************)
ExNext ==
    \/ ExAppend /\ UNCHANGED <<el, sr, rp, be, st>>
    \/ ExExtract /\ UNCHANGED <<el, sr, rp, be, st>>

InitExtract == ExInit /\ el = Off /\ sr = Off /\ rp = Off /\ be = Off /\ st = Off

SpecExtract == InitExtract /\ [][ExNext]_vars

ElNext ==
    \/ ElStart /\ UNCHANGED <<ex, sr, rp, be, st>>
    \/ \E result \in ModelOutputs : ElModelReturns(result) /\ UNCHANGED <<ex, sr, rp, be, st>>
    \/ ElModelRaises /\ UNCHANGED <<ex, sr, rp, be, st>>
    \/ \E accept \in BOOLEAN : ElConfirm(accept) /\ UNCHANGED <<ex, sr, rp, be, st>>
    \/ ElConfirmAborts /\ UNCHANGED <<ex, sr, rp, be, st>>

InitEdit == ElInit /\ ex = Off /\ sr = Off /\ rp = Off /\ be = Off /\ st = Off

SpecEdit == InitEdit /\ [][ElNext]_vars

SrNext ==
    \/ SrRejectPath /\ UNCHANGED <<ex, el, rp, be, st>>
    \/ SrSpawn /\ UNCHANGED <<ex, el, rp, be, st>>
    \/ SrSpawnFails /\ UNCHANGED <<ex, el, rp, be, st>>
    \/ SrCommunicateFails /\ UNCHANGED <<ex, el, rp, be, st>>
    \/ SrTick /\ UNCHANGED <<ex, el, rp, be, st>>
    \/ SrChildExits /\ UNCHANGED <<ex, el, rp, be, st>>
    \/ SrCommunicateReturns /\ UNCHANGED <<ex, el, rp, be, st>>
    \/ SrTimeoutExpired /\ UNCHANGED <<ex, el, rp, be, st>>
    \/ SrKill /\ UNCHANGED <<ex, el, rp, be, st>>
    \/ SrChildDies /\ UNCHANGED <<ex, el, rp, be, st>>
    \/ SrReturnTimeout /\ UNCHANGED <<ex, el, rp, be, st>>

InitRun == SrInit /\ ex = Off /\ el = Off /\ rp = Off /\ be = Off /\ st = Off

SpecRun == InitRun /\ [][SrNext]_vars

RpNext ==
    \/ \E line \in ReplLines : RpRead(line) /\ UNCHANGED <<ex, el, sr, be, st>>
    \/ RpEndOfInput /\ UNCHANGED <<ex, el, sr, be, st>>
    \/ RpInterruptAtInput /\ UNCHANGED <<ex, el, sr, be, st>>
    \/ RpInterruptInCommand /\ UNCHANGED <<ex, el, sr, be, st>>
    \/ \E result \in ReplOutputs : RpImproveReturns(result) /\ UNCHANGED <<ex, el, sr, be, st>>
    \/ RpBackendRaises /\ UNCHANGED <<ex, el, sr, be, st>>
    \/ RpAskReturns /\ UNCHANGED <<ex, el, sr, be, st>>
    \/ RpRunReturns /\ UNCHANGED <<ex, el, sr, be, st>>
    \/ RpRunRaises /\ UNCHANGED <<ex, el, sr, be, st>>
    \/ RpSaveFails /\ UNCHANGED <<ex, el, sr, be, st>>

InitRepl == RpInit /\ ex = Off /\ el = Off /\ sr = Off /\ be = Off /\ st = Off

SpecRepl == InitRepl /\ [][RpNext]_vars

BeNext ==
    \/ BeGetBackend /\ UNCHANGED <<ex, el, sr, rp, st>>
    \/ BeConstructOpenAI /\ UNCHANGED <<ex, el, sr, rp, st>>
    \/ BeChat /\ UNCHANGED <<ex, el, sr, rp, st>>
    \/ BeMockChat /\ UNCHANGED <<ex, el, sr, rp, st>>
    \/ BeResponse /\ UNCHANGED <<ex, el, sr, rp, st>>
    \/ BeTransportError /\ UNCHANGED <<ex, el, sr, rp, st>>

InitBackend == BeInit /\ ex = Off /\ el = Off /\ sr = Off /\ rp = Off /\ st = Off

SpecBackend == InitBackend /\ [][BeNext]_vars

StNext ==
    \/ StLine /\ UNCHANGED <<ex, el, sr, rp, be>>
    \/ StEnd /\ UNCHANGED <<ex, el, sr, rp, be>>

InitStream == StInit /\ ex = Off /\ el = Off /\ sr = Off /\ rp = Off /\ be = Off

SpecStream == InitStream /\ [][StNext]_vars

(***************************************************************************)
(* What the claims call the first fenced block of a text.                  *)
(***************************************************************************)
\* The text holds a fenced block: a marker and a later marker closing it.
ClaimHasFence(t) == NextFence(t, 1) # 0 /\ NextFence(t, NextFence(t, 1) + 3) # 0

\* Length of the language hint that opens raw: a run of characters that are
\* neither whitespace nor backticks, ended by a newline; -1 if there is none.
ClaimHintLen(raw) ==
    LET stops == {k \in 0..Len(raw) :
                     k = Len(raw) \/ raw[k + 1] \in SpaceChars \cup {BQ}}
        h == CHOOSE k \in stops : \A m \in stops : k <= m
    IN  IF h < Len(raw) /\ raw[h + 1] = "\n" THEN h ELSE -1

\* The trimmed inner text of the first fenced block: from the first marker
\* (and its hint, any characters) to the nearest following marker.
ClaimFirstFence(t) ==
    LET o == NextFence(t, 1)
        c == NextFence(t, o + 3)
        raw == SubSeq(t, o + 3, c - 1)
        h == ClaimHintLen(raw)
    IN  strip(IF h >= 0 THEN SubSeq(raw, h + 2, Len(raw)) ELSE raw)

(***************************************************************************)
(* C1.  A run of edit_loop that ends without applying (no code extracted,  *)
(* or the user answers No) never opens the target file for writing and     *)
(* leaves its content as it was before the call.                           *)
(***************************************************************************)
C1_NotAppliedLeavesFile ==
    el.pc \in {"aborted", "discarded"} => (~el.opened_w /\ el.file = el.orig)

\* The user was shown code that differs from the file and answered No.
C1_Witness ==
    /\ el.pc = "discarded"
    /\ Truthy(el.code)
    /\ el.code # el.orig

(***************************************************************************)
(* C2.  With auto_accept, for every model output that holds a fenced block *)
(* (its inner text may be empty or blank), edit_loop ends with the file    *)
(* equal to the first fence's trimmed inner text, and no confirmation      *)
(* prompt was issued.                                                      *)
(***************************************************************************)
C2_AutoAcceptApplies ==
    (/\ el.pc \in {"done", "aborted", "discarded", "awaiting_confirmation"}
     /\ el.auto_accept
     /\ ClaimHasFence(el.result))
    => (/\ el.pc = "done"
        /\ el.file = ClaimFirstFence(el.result)
        /\ el.prompts = 0)

(***************************************************************************)
(* C3.  When the timeout elapses with the child still running, the call    *)
(* returns (124, "", "Timeout"), and when it returns the child is no       *)
(* longer alive: it has terminated, not merely been sent the signal.       *)
(***************************************************************************)
C3_TimeoutKillsChild ==
    (sr.pc = "returned" /\ sr.timed_out)
    => (/\ sr.result = Result(124, "", "Timeout")
        /\ sr.child \in {"exited", "dead"})

(***************************************************************************)
(* C4.  A failure of spawning or communicating other than a timeout is     *)
(* returned as (1, "", description) and never leaves safe_run_file as an   *)
(* exception, in both packages.                                            *)
(***************************************************************************)
C4_FailureIsReturned ==
    sr.error # "none" => (sr.pc = "returned" /\ sr.result = Result(1, "", sr.error))

(***************************************************************************)
(* C5.  An improve, run or save command issued when its prerequisite is    *)
(* absent (improve: no file loaded; run: no file loaded and no model       *)
(* output; save: no file loaded or no model output) only prints a warning: *)
(* no backend request, no process, no file written, the session fields     *)
(* unchanged, and the loop reads the next command.  Conversely, once a     *)
(* file has been loaded, whatever its content, improve is not rejected     *)
(* with the no-file warning.                                               *)
(***************************************************************************)
\* The session fields and the disk are as before, and only a warning was printed.
C5_OnlyWarns ==
    /\ rp'.pc = "input"
    /\ rp'.warn \in {"no_file", "no_code", "nothing_to_save"}
    /\ ~rp'.requested /\ ~rp'.spawned /\ ~rp'.wrote
    /\ rp'.current_file = rp.current_file
    /\ rp'.current_code = rp.current_code
    /\ rp'.last_model_output = rp.last_model_output
    /\ rp'.fs = rp.fs

C5_CommandStep ==
    (rp.pc = "input" /\ rp'.end \notin {"eof", "interrupt_at_input"})
    => LET k == CommandOf(rp'.cmd)
           no_file == rp.current_file = NoFile
           no_output == rp.last_model_output = None
       IN  /\ (k = "improve" /\ no_file) => C5_OnlyWarns
           /\ (k = "run" /\ no_file /\ no_output) => C5_OnlyWarns
           /\ (k = "save" /\ (no_file \/ no_output)) => C5_OnlyWarns
           /\ (k = "improve" /\ ~no_file) => rp'.warn # "no_file"

C5_PrerequisiteWarnings == [][C5_CommandStep]_vars

(***************************************************************************)
(* C6 as claimed.  The loop of run() ends only on exit, quit, end of input *)
(* or an interrupt, and gracefully in each case: no exception leaves run() *)
(* wherever the interrupt arrives.                                         *)
(***************************************************************************)
C6_EndsGracefully ==
    rp.pc = "ended"
    => (/\ rp.end \in {"exit", "quit", "eof", "interrupt_at_input", "interrupt_in_command"}
        /\ ~rp.escaped)

(***************************************************************************)
(* C6 as amended.  The loop ends only on exit, quit, end of input, an      *)
(* interrupt or an exception raised inside a command; it ends gracefully   *)
(* on exit, quit, end of input and an interrupt that arrives while waiting *)
(* for input, whereas an interrupt or an error inside a command leaves     *)
(* run() as an exception; an unknown command prints a hint, changes no     *)
(* session state and the loop goes on.                                     *)
(***************************************************************************)
C6_EndReasons ==
    /\ rp.pc = "ended"
       => (/\ rp.end \in {"exit", "quit", "eof", "interrupt_at_input",
                          "interrupt_in_command", "error"}
           /\ rp.escaped <=> rp.end \in {"interrupt_in_command", "error"})
    /\ rp.pc # "ended" => (rp.end = "none" /\ ~rp.escaped)

C6_UnknownStep ==
    (rp.pc = "input" /\ rp'.end \notin {"eof", "interrupt_at_input"}
        /\ CommandOf(rp'.cmd) = "unknown")
    => (/\ rp'.pc = "input"
        /\ rp'.warn = "unknown"
        /\ rp' = [RpBegin(rp, rp'.cmd) EXCEPT !.warn = "unknown"])

C6_EndsGracefullyAtInput == [](C6_EndReasons) /\ [][C6_UnknownStep]_vars

\* An interrupt arrived while ask was waiting for the backend and left run().
C6_Witness ==
    /\ rp.pc = "ended"
    /\ rp.end = "interrupt_in_command"
    /\ rp.escaped
    /\ CommandOf(rp.cmd) = "ask"

(***************************************************************************)
(* C11.  The code that save writes to current_file, and the code that run  *)
(* executes in preference to the loaded content, is model output of an     *)
(* improve whose prompt embedded the content of the file that is currently *)
(* loaded; after a successful load of another file no model output of the  *)
(* file loaded before is left for a later save or run: no save and no run *)
(* that follows uses one.                                                  *)
(***************************************************************************)
C11_OutputOfCurrentFile ==
    /\ (CommandOf(rp.cmd) = "save" /\ rp.wrote)
       => (/\ rp.fs[rp.current_file] = rp.last_model_output
           /\ rp.output_file = rp.current_file)
    /\ (CommandOf(rp.cmd) = "run" /\ rp.spawned /\ rp.code = rp.last_model_output)
       => rp.output_file = rp.current_file

(***************************************************************************)
(* C7.  Constructing the OpenAI-compatible backend without an API key      *)
(* fails at once with a configuration error, in both packages: no handle   *)
(* without a credential exists, and no request is issued without one.      *)
(***************************************************************************)
C7_NoHandleWithoutKey ==
    /\ (be.cls = "OpenAIBackend" /\ FalsyKey(be.api_key)) => be.pc = "config_error"
    /\ (be.cls = "OpenAIBackend" /\ be.pc \in {"requesting", "returned", "raised"})
          => ~FalsyKey(be.sent_key)

(***************************************************************************)
(* C8.  For every HTTP backend of both packages, a non-streaming chat      *)
(* whose response has a non-success status returns no text: it raises an   *)
(* error that carries the HTTP status.                                     *)
(***************************************************************************)
C8_ErrorStatusRaises ==
    (/\ be.pc \in {"returned", "raised"}
     /\ be.cls \in HttpClasses
     /\ be.status # 0
     /\ be.status \notin 200..299)
    => (be.pc = "raised" /\ be.err = "HTTPError" /\ be.err_status = be.status)

(***************************************************************************)
(* C10.  In streaming mode of the OpenAI-compatible backend of both        *)
(* packages, the on_stream invocations are exactly the content fields of   *)
(* the parseable data events that precede the first sentinel line, in      *)
(* order of arrival: an event that fails to parse invokes nothing, and     *)
(* nothing is invoked at or after the sentinel.                            *)
(***************************************************************************)
\* (An event whose delta holds no content counts with the empty content.)
RECURSIVE ClaimFragments(_)
ClaimFragments(lines) ==
    IF lines = <<>> THEN <<>>
    ELSE LET line == Head(lines)
         IN  IF line = DataPrefix \o <<Sentinel>> THEN <<>>
             ELSE IF startswith(line, DataPrefix) /\ Parses(SubSeq(line, 7, Len(line)))
             THEN <<DeltaContent(SubSeq(line, 7, Len(line)))>> \o ClaimFragments(Tail(lines))
             ELSE ClaimFragments(Tail(lines))

C10_CallbacksAreTheEvents == st.calls = ClaimFragments(st.lines)

(***************************************************************************)
(* C9.  extract_code returns the trimmed inner text of the first fenced    *)
(* block (opened by a marker and any language hint, closed by the nearest  *)
(* following marker), and None exactly when the text has no fence; and     *)
(* extract(wrap_in_fence(x)) = x.strip() for x without a marker.           *)
(***************************************************************************)
C9_ExtractsFirstFence ==
    ex.pc = "done"
    => (/\ ex.out = IF ClaimHasFence(ex.text) THEN ClaimFirstFence(ex.text) ELSE None
        /\ NextFence(ex.text, 1) = 0
              => extract_code(wrap_in_fence(ex.text)) = strip(ex.text))

====
